---- MODULE Spec2Model ----
(***************************************************************************)
(* Model of sysflow.formatter.SFFormatter (py3/classes/sysflow/formatter.py)*)
(*                                                                         *)
(* A Python str is a sequence of symbols (TLA+ strings used as atomic      *)
(* characters or chunks); an OrderedDict is a sequence of entries          *)
(* [k |-> key, v |-> value] in insertion order; a value is either a str    *)
(* or a nested OrderedDict.  A call that raises is a result with ok=FALSE. *)
(***************************************************************************)
EXTENDS Integers, Sequences, FiniteSets, TLC

VARIABLES
    api,            \* the SFFormatter method being executed
    reader,         \* self.reader: the record stream, as record ids
    fields,         \* the fields argument
    header,         \* toCsvFile's header argument
    pretty_headers, \* toStdOut's pretty_headers argument
    showindex,      \* toStdOut's showindex argument
    idx,            \* number of records pulled from the reader so far
    bulkRecs,       \* toStdOut's page buffer
    first,          \* toStdOut's first-block flag
    fieldnames,     \* toCsvFile's DictWriter fieldnames (<<>> before it exists)
    out,            \* what has been written to the sink, in order
    pc,             \* "loop", "done" (returned) or "raised"
    exc,            \* the exception that escaped, "" if none
    ret             \* return value of a direct _flatten/_flatten2 call

vars == <<api, reader, fields, header, pretty_headers, showindex, idx,
          bulkRecs, first, fieldnames, out, pc, exc, ret>>

----------------------------------------------------------------------------
(* Bounds *)

MaxFields == 2      \* longest field list supplied by a caller
MaxStream == 3      \* longest stream of the JSON/CSV exports
MaxPages == 2       \* tabular streams run up to MaxPages full pages (+ half)
MaxOver == 3        \* a cell value is up to MaxOver symbols longer than its cell

----------------------------------------------------------------------------
(* Python values *)

S(tok) == <<tok>>
EmptyStr == <<>>
Str(s) == [d |-> FALSE, s |-> s, m |-> <<>>]
Dict(m) == [d |-> TRUE, s |-> <<>>, m |-> m]
OrderedDict == Dict(<<>>)
None == [none |-> TRUE]

Ok(v) == [ok |-> TRUE, val |-> v, exc |-> ""]
Raise(e) == [ok |-> FALSE, val |-> <<>>, exc |-> e]

(* OrderedDict: `k in m`, m[k], m[k] = v (an existing key keeps its place), list(m.keys()) *)
Has(m, k) == \E i \in DOMAIN m : m[i].k = k
Get(m, k) == m[CHOOSE i \in DOMAIN m : m[i].k = k].v
IndexOf(m, k) == CHOOSE i \in DOMAIN m : m[i].k = k
Put(m, k, v) ==
    IF Has(m, k)
    THEN SubSeq(m, 1, IndexOf(m, k) - 1) \o <<[k |-> k, v |-> v]>>
         \o SubSeq(m, IndexOf(m, k) + 1, Len(m))
    ELSE Append(m, [k |-> k, v |-> v])
Keys(m) == [i \in DOMAIN m |-> m[i].k]
Range(f) == { f[i] : i \in DOMAIN f }

(* m after the assignments m[e.k] = e.v for the entries e of es, in order *)
(* (the list is halved so that the evaluation stays shallow)              *)
RECURSIVE PutAll(_, _)
PutAll(m, es) ==
    IF es = <<>> THEN m
    ELSE IF Len(es) = 1 THEN Put(m, es[1].k, es[1].v)
    ELSE LET h == Len(es) \div 2
             left == PutAll(m, SubSeq(es, 1, h))
         IN  IF Len(left) >= 0 THEN PutAll(left, SubSeq(es, h + 1, Len(es))) ELSE left

E(key, text) == [k |-> S(key), v |-> Str(text)]

----------------------------------------------------------------------------
(* The records the reader yields: (objtype, header, cont, pproc, proc,     *)
(* files, evt, flow) per object type, as FlattenedSFReader produces them.  *)

PROC_EVT == "PROC_EVT"
FILE_EVT == "FILE_EVT"
FILE_FLOW == "FILE_FLOW"
NET_FLOW == "NET_FLOW"
ObjectTypes == {PROC_EVT, FILE_EVT, FILE_FLOW, NET_FLOW}

OBJECT_MAP(objtype) ==
    CASE objtype = PROC_EVT -> S("PE")
      [] objtype = FILE_EVT -> S("FE")
      [] objtype = FILE_FLOW -> S("FF")
      [] objtype = NET_FLOW -> S("NF")
      [] OTHER -> S("?")

Process(p) ==
    [oid |-> [hpid |-> S(p \o ".oid.hpid"), createTS |-> S(p \o ".oid.createTS")],
     uid |-> S(p \o ".uid"), userName |-> S(p \o ".userName"),
     gid |-> S(p \o ".gid"), groupName |-> S(p \o ".groupName"),
     exe |-> S(p \o ".exe"), exeArgs |-> S(p \o ".exeArgs"), tty |-> S(p \o ".tty")]

Container ==
    [id |-> S("cont.id"), name |-> S("cont.name"), imageid |-> S("cont.imageid"),
     image |-> S("cont.image"), type |-> S("cont.type"),
     privileged |-> S("cont.privileged")]

File(path) == [path |-> path]
File0 == File(<<"/", "a">>)
File1 == File(<<"/", "b">>)

Event ==
    [opFlags |-> S("evt.opFlags"), ret |-> S("evt.ret"), ts |-> S("evt.ts"),
     tid |-> S("evt.tid")]

FileFlow ==
    [opFlags |-> S("flow.opFlags"), ts |-> S("flow.ts"), endTs |-> S("flow.endTs"),
     tid |-> S("flow.tid"), fd |-> S("flow.fd"), openFlags |-> S("flow.openFlags"),
     numRRecvBytes |-> S("flow.numRRecvBytes"), numRRecvOps |-> S("flow.numRRecvOps"),
     numWSendBytes |-> S("flow.numWSendBytes"), numWSendOps |-> S("flow.numWSendOps")]

NetworkFlow ==
    [opFlags |-> S("flow.opFlags"), ts |-> S("flow.ts"), endTs |-> S("flow.endTs"),
     tid |-> S("flow.tid"), fd |-> S("flow.fd"),
     numRRecvBytes |-> S("flow.numRRecvBytes"), numRRecvOps |-> S("flow.numRRecvOps"),
     numWSendBytes |-> S("flow.numWSendBytes"), numWSendOps |-> S("flow.numWSendOps"),
     sip |-> S("flow.sip"), dip |-> S("flow.dip"), sport |-> S("flow.sport"),
     dport |-> S("flow.dport"), proto |-> S("flow.proto")]

VariantRecord(objtype, cont, pproc, files) ==
    [objtype |-> objtype, header |-> None, cont |-> cont, pproc |-> pproc,
     proc |-> Process("proc"), files |-> files,
     evt |-> IF objtype \in {PROC_EVT, FILE_EVT} THEN Event ELSE None,
     flow |-> IF objtype = FILE_FLOW THEN FileFlow
              ELSE IF objtype = NET_FLOW THEN NetworkFlow ELSE None]

(* the (file1, file2) tuple: files[0] is files.f0, files[1] is files.f1 *)
FilePair(a, b) == [f0 |-> a, f1 |-> b]

(* The trace: record id -> record.  Every object type, with the parent    *)
(* process, the container and each file resource present or absent.        *)
ObjectTypeOf(id) ==
    CASE id % 4 = 0 -> PROC_EVT
      [] id % 4 = 1 -> FILE_EVT
      [] id % 4 = 2 -> FILE_FLOW
      [] id % 4 = 3 -> NET_FLOW

Rec(id) ==
    LET t == ObjectTypeOf(id)
        pproc == IF (id \div 4) % 2 = 0 THEN Process("pproc") ELSE None
        cont == IF (id \div 8) % 2 = 0 THEN Container ELSE None
        f0 == IF (id \div 16) % 2 = 0 THEN File0 ELSE None
        f1 == IF (id \div 32) % 2 = 0 THEN File1 ELSE None
    IN VariantRecord(t, cont, pproc,
                     IF t \in {FILE_EVT, FILE_FLOW} THEN FilePair(f0, f1) ELSE None)

RecordIds == 0..63

----------------------------------------------------------------------------
(* External helpers of sysflow.utils: pure functions of their argument *)

getOpFlagsStr(x) == <<"getOpFlagsStr">> \o x
getTimeStr(x) == <<"getTimeStr">> \o x
getNetFlowStr(flow) == <<"getNetFlowStr">> \o flow.sip \o flow.sport \o flow.dip \o flow.dport
getTimeStrIso8601(x) == <<"getTimeStrIso8601">> \o x
getOpStr(x) == <<"getOpStr">> \o x
getOpFlagsDict(x) == Dict(<<[k |-> <<"getOpFlagsDict">>, v |-> Str(x)]>>)
getIpIntStr(x) == <<"getIpIntStr">> \o x

----------------------------------------------------------------------------
(* fields argument: None, or a list of keys.  `if fields:` is Truthy.      *)

NoFields == [given |-> FALSE, keys |-> <<>>]
FieldList(ks) == [given |-> TRUE, keys |-> ks]
Truthy(f) == f.given /\ f.keys # <<>>

----------------------------------------------------------------------------
(* SFFormatter._flatten *)

evflowOf(r) == IF r.evt # None THEN r.evt ELSE r.flow

LegacyRes(r) ==
    IF r.objtype \in {FILE_FLOW, FILE_EVT}
    THEN (IF r.files # None /\ r.files.f0 # None THEN r.files.f0.path ELSE EmptyStr)
         \o (IF r.files # None /\ r.files.f1 # None
             THEN <<",", " ">> \o r.files.f1.path ELSE EmptyStr)
    ELSE IF r.objtype \in {NET_FLOW} THEN getNetFlowStr(r.flow)
    ELSE EmptyStr

LegacyEvFlow(r) ==
    LET evt == r.evt
        flow == r.flow
        evflow == evflowOf(r)
    IN <<
        E("flow_type", OBJECT_MAP(r.objtype)),
        E("op_flags", IF evflow # None THEN getOpFlagsStr(evflow.opFlags) ELSE EmptyStr),
        E("ret_code", IF evt # None THEN evflow.ret ELSE EmptyStr),
        E("ts", IF evflow # None THEN getTimeStr(evflow.ts) ELSE EmptyStr),
        E("ts_uts", IF evflow # None THEN evflow.ts ELSE EmptyStr),
        E("end_ts", IF flow # None THEN getTimeStr(evflow.endTs) ELSE EmptyStr),
        E("end_ts_uts", IF flow # None THEN evflow.endTs ELSE EmptyStr) >>

LegacyProc(r) ==
    LET proc == r.proc
        evflow == evflowOf(r)
    IN <<
        E("proc_pid", proc.oid.hpid),
        E("proc_tid", IF evflow # None THEN evflow.tid ELSE EmptyStr),
        E("proc_uid", IF proc # None THEN proc.uid ELSE EmptyStr),
        E("proc_user", IF proc # None THEN proc.userName ELSE EmptyStr),
        E("proc_gid", IF proc # None THEN proc.gid ELSE EmptyStr),
        E("proc_group", IF proc # None THEN proc.groupName ELSE EmptyStr),
        E("proc_exe", IF proc # None THEN proc.exe ELSE EmptyStr),
        E("proc_args", IF proc # None THEN proc.exeArgs ELSE EmptyStr),
        E("proc_tty", IF proc # None THEN proc.tty ELSE EmptyStr),
        E("proc_create_ts", IF proc # None THEN proc.oid.createTS ELSE EmptyStr) >>

LegacyPProc(r) ==
    LET pproc == r.pproc
    IN <<
        E("pproc_pid", IF pproc # None THEN pproc.oid.hpid ELSE EmptyStr),
        E("pproc_gid", IF pproc # None THEN pproc.gid ELSE EmptyStr),
        E("pproc_uid", IF pproc # None THEN pproc.uid ELSE EmptyStr),
        E("pproc_group", IF pproc # None THEN pproc.groupName ELSE EmptyStr),
        E("pproc_tty", IF pproc # None THEN pproc.tty ELSE EmptyStr),
        E("pproc_user", IF pproc # None THEN pproc.userName ELSE EmptyStr),
        E("pproc_exe", IF pproc # None THEN pproc.exe ELSE EmptyStr),
        E("pproc_args", IF pproc # None THEN pproc.exeArgs ELSE EmptyStr),
        E("pproc_create_ts", IF pproc # None THEN pproc.oid.createTS ELSE EmptyStr) >>

LegacyFile(r) ==
    LET flow == r.flow
    IN <<
        E("fd", IF flow # None THEN flow.fd ELSE EmptyStr),
        E("open_flags", IF r.objtype = FILE_FLOW THEN flow.openFlags ELSE EmptyStr),
        E("res", LegacyRes(r)) >>

(* mutation of LegacyNet: the absent network fields default to "0" *)
LegacyNetZero(r) ==
    LET objtype == r.objtype
        evflow == evflowOf(r)
    IN <<
        E("proto", IF objtype = NET_FLOW THEN evflow.proto ELSE S("0")),
        E("sport", IF objtype = NET_FLOW THEN evflow.sport ELSE S("0")),
        E("dport", IF objtype = NET_FLOW THEN evflow.dport ELSE S("0")),
        E("sip", IF objtype = NET_FLOW THEN evflow.sip ELSE S("0")),
        E("dip", IF objtype = NET_FLOW THEN evflow.dip ELSE S("0")) >>

LegacyNet(r) ==
    LET objtype == r.objtype
        evflow == evflowOf(r)
    IN <<
        E("proto", IF objtype = NET_FLOW THEN evflow.proto ELSE EmptyStr),
        E("sport", IF objtype = NET_FLOW THEN evflow.sport ELSE EmptyStr),
        E("dport", IF objtype = NET_FLOW THEN evflow.dport ELSE EmptyStr),
        E("sip", IF objtype = NET_FLOW THEN evflow.sip ELSE EmptyStr),
        E("dip", IF objtype = NET_FLOW THEN evflow.dip ELSE EmptyStr) >>

LegacyVolume(r) ==
    LET flow == r.flow
    IN <<
        E("rcv_r_bytes", IF flow # None THEN flow.numRRecvBytes ELSE EmptyStr),
        E("rcv_r_ops", IF flow # None THEN flow.numRRecvOps ELSE EmptyStr),
        E("snd_w_bytes", IF flow # None THEN flow.numWSendBytes ELSE EmptyStr),
        E("snd_w_ops", IF flow # None THEN flow.numWSendOps ELSE EmptyStr) >>

(* mutation of LegacyCont: no container keys for a record without container *)
LegacyContOmitted(r) ==
    LET cont == r.cont
    IN  IF cont = None THEN <<>>
        ELSE << E("cont_id", cont.id), E("cont_name", cont.name),
                E("cont_image_id", cont.imageid), E("cont_image", cont.image),
                E("cont_type", cont.type), E("cont_privileged", cont.privileged) >>

LegacyCont(r) ==
    LET cont == r.cont
    IN <<
        E("cont_id", IF cont # None THEN cont.id ELSE EmptyStr),
        E("cont_name", IF cont # None THEN cont.name ELSE EmptyStr),
        E("cont_image_id", IF cont # None THEN cont.imageid ELSE EmptyStr),
        E("cont_image", IF cont # None THEN cont.image ELSE EmptyStr),
        E("cont_type", IF cont # None THEN cont.type ELSE EmptyStr),
        E("cont_privileged", IF cont # None THEN cont.privileged ELSE EmptyStr) >>

(* the assignments _flat_map[...] = ... of lines 287-338, in order *)
LegacyFlatMap(r) ==
    PutAll(<<>>, LegacyEvFlow(r) \o LegacyProc(r) \o LegacyPProc(r) \o LegacyFile(r)
                 \o LegacyNet(r) \o LegacyVolume(r) \o LegacyCont(r))

(* mutation of LegacyProject: a key not in the map is skipped (dict.get style) *)
LegacyProjectSkipping(flatMap, ks, od) ==
    LET known == SelectSeq(ks, LAMBDA k : Has(flatMap, k))
    IN  Ok(PutAll(od, [i \in DOMAIN known |->
                        [k |-> known[i], v |-> Get(flatMap, known[i])]]))

(* for k in fields: od[k] = _flat_map[k]   (KeyError at the first key not in the map) *)
LegacyProject(flatMap, ks, od) ==
    IF \E i \in DOMAIN ks : ~Has(flatMap, ks[i]) THEN Raise("KeyError")
    ELSE Ok(PutAll(od, [i \in DOMAIN ks |-> [k |-> ks[i], v |-> Get(flatMap, ks[i])]]))

_flatten(r, f) ==
    IF Truthy(f) THEN LegacyProject(LegacyFlatMap(r), f.keys, <<>>)
    ELSE Ok(LegacyFlatMap(r))

----------------------------------------------------------------------------
(* SFFormatter._flatten2: the full nested mapping *)

EV(key, value) == [k |-> S(key), v |-> value]
In(objtype, types, es) == IF objtype \in types THEN es ELSE <<>>

VersionedProc(r) ==
    IF r.proc # None
    THEN PutAll(<<>>, <<
        E("pid", r.proc.oid.hpid),
        E("tid", IF evflowOf(r) # None THEN evflowOf(r).tid ELSE EmptyStr),
        E("uid", r.proc.uid),
        E("user", r.proc.userName),
        E("gid", r.proc.gid),
        E("group", r.proc.groupName),
        E("exe", r.proc.exe),
        E("args", r.proc.exeArgs),
        E("tty", r.proc.tty),
        E("create_ts", r.proc.oid.createTS) >>)
    ELSE <<>>

VersionedPProc(r) ==
    IF r.pproc # None
    THEN PutAll(<<>>, <<
        E("pid", r.pproc.oid.hpid),
        E("gid", r.pproc.gid),
        E("uid", r.pproc.uid),
        E("group", r.pproc.groupName),
        E("tty", r.pproc.tty),
        E("user", r.pproc.userName),
        E("exe", r.pproc.exe),
        E("args", r.pproc.exeArgs),
        E("create_ts", r.pproc.oid.createTS) >>)
    ELSE <<>>

VersionedCont(r) ==
    IF r.cont # None
    THEN PutAll(<<>>, <<
        E("id", r.cont.id),
        E("name", r.cont.name),
        E("image_id", r.cont.imageid),
        E("image", r.cont.image),
        E("type", r.cont.type),
        E("privileged", r.cont.privileged) >>)
    ELSE <<>>

VersionedFiles(r) ==
    (IF r.files # None
     THEN <<E("file", IF r.files.f0 # None THEN r.files.f0.path ELSE EmptyStr)>>
          \o (IF r.files.f1 # None THEN <<E("file2", r.files.f1.path)>> ELSE <<>>)
     ELSE <<>>)
    \o <<E("fd", IF r.flow # None THEN r.flow.fd ELSE EmptyStr),
         E("open_flags", IF r.objtype = FILE_FLOW THEN r.flow.openFlags ELSE EmptyStr)>>

VersionedFlatMap(r) ==
    LET objtype == r.objtype
        evt == r.evt
        flow == r.flow
        evflow == evflowOf(r)
        _ts_field == IF objtype \in {FILE_FLOW, NET_FLOW} THEN "start_ts" ELSE "ts"
    IN PutAll(<<>>,
        << E("v", <<"0.2.0">>),
           E("type", OBJECT_MAP(objtype)),
           E(_ts_field, IF evflow # None THEN getTimeStrIso8601(evflow.ts) ELSE EmptyStr),
           E(_ts_field \o "_uts", IF evflow # None THEN evflow.ts ELSE EmptyStr) >>
        \o In(objtype, {FILE_FLOW, NET_FLOW}, <<
           E("end_ts", IF flow # None THEN getTimeStrIso8601(evflow.endTs) ELSE EmptyStr),
           E("end_ts_uts", IF flow # None THEN evflow.endTs ELSE EmptyStr) >>)
        \o << EV("proc", Dict(VersionedProc(r))),
              EV("pproc", Dict(VersionedPProc(r))) >>
        \o In(objtype, {FILE_EVT, PROC_EVT}, <<
           E("op", IF evflow # None THEN getOpStr(evflow.opFlags) ELSE EmptyStr) >>)
        \o In(objtype, {FILE_FLOW, NET_FLOW}, <<
           EV("opflags", IF evflow # None THEN getOpFlagsDict(evflow.opFlags)
                         ELSE OrderedDict) >>)
        \o In(objtype, {FILE_EVT, PROC_EVT}, <<
           E("ret", IF evt # None THEN evflow.ret ELSE EmptyStr) >>)
        \o In(objtype, {NET_FLOW}, <<
           E("sip", getIpIntStr(evflow.sip)),
           E("dip", getIpIntStr(evflow.dip)),
           E("proto", evflow.proto),
           E("sport", evflow.sport),
           E("dport", evflow.dport) >>)
        \o In(objtype, {FILE_FLOW, FILE_EVT}, VersionedFiles(r))
        \o In(objtype, {NET_FLOW}, <<
           E("rcvd_bytes", IF flow # None THEN flow.numRRecvBytes ELSE EmptyStr),
           E("rcvd_ops", IF flow # None THEN flow.numRRecvOps ELSE EmptyStr),
           E("sent_bytes", IF flow # None THEN flow.numWSendBytes ELSE EmptyStr),
           E("sent_ops", IF flow # None THEN flow.numWSendOps ELSE EmptyStr) >>)
        \o In(objtype, {FILE_FLOW}, <<
           E("r_bytes", IF flow # None THEN flow.numRRecvBytes ELSE EmptyStr),
           E("r_ops", IF flow # None THEN flow.numRRecvOps ELSE EmptyStr),
           E("w_bytes", IF flow # None THEN flow.numWSendBytes ELSE EmptyStr),
           E("w_ops", IF flow # None THEN flow.numWSendOps ELSE EmptyStr) >>)
        \o << EV("cont", Dict(VersionedCont(r))) >>)

----------------------------------------------------------------------------
(* SFFormatter._flatten2: recursive projection (lines 451-468) *)

(* k.split('.'): the segments between the '.' symbols of the key *)
RECURSIVE Split(_)
Split(k) ==
    IF \A i \in DOMAIN k : k[i] # "."
    THEN <<k>>
    ELSE LET i == CHOOSE j \in DOMAIN k : k[j] = "." /\ \A h \in 1..(j - 1) : k[h] # "."
         IN <<SubSeq(k, 1, i - 1)>> \o Split(SubSeq(k, i + 1, Len(k)))

(* the object reached from mapping m by the keys of path p (m itself for <<>>) *)
RECURSIVE GetPath(_, _)
GetPath(m, p) ==
    IF p = <<>> THEN Dict(m)
    ELSE IF Len(p) = 1 THEN Get(m, p[1])
    ELSE GetPath(Get(m, p[1]).m, Tail(p))

(* item assignment on the mapping reached by all but the last key of p *)
RECURSIVE SetPath(_, _, _)
SetPath(m, p, val) ==
    IF Len(p) = 1 THEN Put(m, p[1], val)
    ELSE Put(m, p[1], Dict(SetPath(Get(m, p[1]).m, Tail(p), val)))

IsPrefix(q, p) == Len(q) <= Len(p) /\ SubSeq(p, 1, Len(q)) = q

(* od and _flat_map share the object at path p: an earlier `lo[lk] = v`   *)
(* stored a sub-mapping of _flat_map itself at a prefix of p               *)
Shared(w, p) == \E q \in w.shared : IsPrefix(q, p)

(* mutation of WalkSegment: o[kk] = OrderedDict() unconditionally *)
WalkSegmentOverwriting(w, kk) ==
    LET o == GetPath(w.od, w.at)
        at2 == Append(w.at, kk)
        od2 == SetPath(w.od, at2, OrderedDict)
        fm2 == IF Shared(w, w.at) THEN SetPath(w.fm, at2, OrderedDict) ELSE w.fm
        v == GetPath(fm2, w.at)
    IN  IF w.exc # "" THEN w
        ELSE IF ~o.d THEN [w EXCEPT !.exc = "TypeError"]
        ELSE IF ~v.d THEN [w EXCEPT !.exc = "TypeError"]
        ELSE IF ~Has(v.m, kk) THEN [w EXCEPT !.exc = "KeyError"]
        ELSE [w EXCEPT !.od = od2, !.fm = fm2, !.at = at2]

(* Body of `for kk in k.split('.')`, w.at being the path walked so far,   *)
(* at which o (in od) and v (in _flat_map) stand.                          *)
WalkSegment(w, kk) ==
    LET o == GetPath(w.od, w.at)
        at2 == Append(w.at, kk)
        \* o[kk] = OrderedDict() if kk not in o else o[kk]
        od2 == IF Has(o.m, kk) THEN w.od ELSE SetPath(w.od, at2, OrderedDict)
        fm2 == IF ~Has(o.m, kk) /\ Shared(w, w.at)
               THEN SetPath(w.fm, at2, OrderedDict) ELSE w.fm
        v == GetPath(fm2, w.at)
    IN  IF w.exc # "" THEN w
        ELSE IF ~o.d THEN [w EXCEPT !.exc = "TypeError"]
        \* v = v[kk]
        ELSE IF ~v.d THEN [w EXCEPT !.exc = "TypeError"]
        ELSE IF ~Has(v.m, kk) THEN [w EXCEPT !.exc = "KeyError"]
        ELSE [w EXCEPT !.od = od2, !.fm = fm2, !.at = at2]

RECURSIVE WalkKey(_, _)
WalkKey(w, segs) ==
    IF segs = <<>> THEN w ELSE WalkKey(WalkSegment(w, Head(segs)), Tail(segs))

(* Body of `for k in fields`: walk the key, then lo[lk] = v *)
ProjectKey(w, k) ==
    LET e == WalkKey([w EXCEPT !.at = <<>>], Split(k))
        v == GetPath(e.fm, e.at)
    IN  IF e.exc # "" THEN e
        ELSE [e EXCEPT !.od = SetPath(e.od, e.at, v),
                       !.shared = IF v.d THEN e.shared \cup {e.at} ELSE e.shared]

RECURSIVE ProjectKeys(_, _)
ProjectKeys(w, ks) ==
    IF ks = <<>> \/ w.exc # "" THEN w ELSE ProjectKeys(ProjectKey(w, Head(ks)), Tail(ks))

VersionedProject(flatMap, ks) ==
    LET w0 == [od |-> Put(<<>>, S("v"), Get(flatMap, S("v"))), fm |-> flatMap,
               at |-> <<>>, shared |-> {}, exc |-> ""]
        w == ProjectKeys(w0, ks)
    IN  IF w.exc # "" THEN Raise(w.exc) ELSE Ok(w.od)

_flatten2(r, f) ==
    IF Truthy(f) THEN VersionedProject(VersionedFlatMap(r), f.keys)
    ELSE Ok(VersionedFlatMap(r))

----------------------------------------------------------------------------
(* Inputs *)

(* the keys of _flat_map in the order lines 287-338 assign them *)
CanonicalKeys ==
    << S("flow_type"), S("op_flags"), S("ret_code"), S("ts"), S("ts_uts"),
       S("end_ts"), S("end_ts_uts"),
       S("proc_pid"), S("proc_tid"), S("proc_uid"), S("proc_user"), S("proc_gid"),
       S("proc_group"), S("proc_exe"), S("proc_args"), S("proc_tty"),
       S("proc_create_ts"),
       S("pproc_pid"), S("pproc_gid"), S("pproc_uid"), S("pproc_group"),
       S("pproc_tty"), S("pproc_user"), S("pproc_exe"), S("pproc_args"),
       S("pproc_create_ts"),
       S("fd"), S("open_flags"), S("res"),
       S("proto"), S("sport"), S("dport"), S("sip"), S("dip"),
       S("rcv_r_bytes"), S("rcv_r_ops"), S("snd_w_bytes"), S("snd_w_ops"),
       S("cont_id"), S("cont_name"), S("cont_image_id"), S("cont_image"),
       S("cont_type"), S("cont_privileged") >>

CanonicalKeySet == { CanonicalKeys[i] : i \in DOMAIN CanonicalKeys }

(* keys a caller of the legacy exports passes: canonical ones and two that are not *)
LegacyKeyPool ==
    { S("flow_type"), S("proc_pid"), S("pproc_pid"), S("open_flags"), S("res"),
      S("sip"), S("cont_id"), S("bogus"), <<"proc", ".", "pid">> }

(* dotted keys a caller of the versioned exports passes *)
VersionedKeyPool ==
    { <<"proc", ".", "pid">>, <<"proc", ".", "uid">>, <<"pproc", ".", "pid">>,
      <<"cont", ".", "name">>, <<"proc">>, <<"pproc">>, <<"sip">>, <<"ret">>,
      <<"bogus">>, <<"ret", ".", "x">> }

Lists(pool, n) == UNION { [1..k -> pool] : k \in 0..n }

LegacyFieldArgs ==
    {NoFields, FieldList(CanonicalKeys)}
    \cup { FieldList(ks) : ks \in Lists(LegacyKeyPool, MaxFields) }

VersionedFieldArgs ==
    {NoFields} \cup { FieldList(ks) : ks \in Lists(VersionedKeyPool, MaxFields) }

NotReturned == [ok |-> FALSE, val |-> <<>>, exc |-> ""]

----------------------------------------------------------------------------
(* SpecFlat: one direct call of _flatten or _flatten2 on one record *)

InitFlat ==
    /\ api \in {"_flatten", "_flatten2"}
    /\ \E id \in RecordIds : reader = <<id>>
    /\ fields \in (IF api = "_flatten" THEN LegacyFieldArgs ELSE VersionedFieldArgs)
    /\ header = TRUE /\ pretty_headers = TRUE /\ showindex = TRUE
    /\ idx = 0 /\ bulkRecs = <<>> /\ first = TRUE /\ fieldnames = <<>> /\ out = <<>>
    /\ pc = "loop" /\ exc = "" /\ ret = NotReturned

Return(result) ==
    /\ ret' = result
    /\ pc' = IF result.ok THEN "done" ELSE "raised"
    /\ exc' = result.exc

CallFlatten ==
    /\ api = "_flatten" /\ pc = "loop"
    /\ Return(_flatten(Rec(reader[1]), fields))
    /\ UNCHANGED <<api, reader, fields, header, pretty_headers, showindex, idx,
                   bulkRecs, first, fieldnames, out>>

CallFlatten2 ==
    /\ api = "_flatten2" /\ pc = "loop"
    /\ Return(_flatten2(Rec(reader[1]), fields))
    /\ UNCHANGED <<api, reader, fields, header, pretty_headers, showindex, idx,
                   bulkRecs, first, fieldnames, out>>

NextFlat == CallFlatten \/ CallFlatten2

SpecFlat == InitFlat /\ [][NextFlat]_vars

----------------------------------------------------------------------------
(* json.dumps of a mapping: the text of the JSON object, keys in order *)

(* the sequences of ss joined, sep between neighbours (halving, as PutAll) *)
RECURSIVE Join(_, _)
Join(ss, sep) ==
    IF ss = <<>> THEN <<>>
    ELSE IF Len(ss) = 1 THEN ss[1]
    ELSE LET h == Len(ss) \div 2
         IN  Join(SubSeq(ss, 1, h), sep) \o sep \o Join(SubSeq(ss, h + 1, Len(ss)), sep)

Quoted(s) == <<"\"">> \o s \o <<"\"">>

RECURSIVE json_dumps(_)
json_dumps(m) ==
    <<"{">>
    \o Join([i \in DOMAIN m |->
               Quoted(m[i].k) \o <<":", " ">>
               \o (IF m[i].v.d THEN json_dumps(m[i].v.m) ELSE Quoted(m[i].v.s))],
            <<",", " ">>)
    \o <<"}">>

----------------------------------------------------------------------------
(* Spec: the streamed exports toJsonStdOut, toJsonStdOut2 and toCsvFile,   *)
(* one action per iteration of `for r in self.reader`                      *)

(* records of a short trace: PE and NF with everything, FF without parent  *)
(* process, FE with neither parent process nor container                   *)
StreamRecordIds == {0, 3, 6, 13}

Streams == UNION { [1..n -> StreamRecordIds] : n \in 0..MaxStream }

StreamLegacyFieldArgs ==
    { NoFields, FieldList(<<>>), FieldList(<<S("flow_type"), S("sip")>>),
      FieldList(<<S("res"), S("res")>>), FieldList(<<S("proc_pid"), S("bogus")>>) }

StreamVersionedFieldArgs ==
    { NoFields, FieldList(<< <<"sip">> >>), FieldList(<< <<"pproc", ".", "pid">> >>),
      FieldList(<< <<"proc", ".", "pid">>, <<"proc", ".", "uid">> >>),
      FieldList(<< <<"type">>, <<"file2">> >>) }

Init ==
    /\ api \in {"toJsonStdOut", "toJsonStdOut2", "toCsvFile"}
    /\ reader \in Streams
    /\ fields \in (IF api = "toJsonStdOut2" THEN StreamVersionedFieldArgs
                   ELSE StreamLegacyFieldArgs)
    /\ header \in (IF api = "toCsvFile" THEN BOOLEAN ELSE {TRUE})
    /\ pretty_headers = TRUE /\ showindex = TRUE
    /\ idx = 0 /\ bulkRecs = <<>> /\ first = TRUE /\ fieldnames = <<>> /\ out = <<>>
    /\ pc = "loop" /\ exc = "" /\ ret = NotReturned

(* the record the iteration pulls, and the end of the stream *)
HasNext == idx < Len(reader)
Pulled == Rec(reader[idx + 1])

(* mutation of PrintJson: a record that fails to flatten is skipped *)
PrintJsonSkipping(record) ==
    IF record.ok
    THEN out' = Append(out, json_dumps(record.val)) /\ UNCHANGED <<pc, exc>>
    ELSE UNCHANGED <<out, pc, exc>>

(* record = self._flatten(r, fields); print(json.dumps(record)):           *)
(* an exception of the flattening leaves the loop and the method           *)
PrintJson(record) ==
    IF record.ok
    THEN out' = Append(out, json_dumps(record.val)) /\ UNCHANGED <<pc, exc>>
    ELSE pc' = "raised" /\ exc' = record.exc /\ UNCHANGED out

toJsonStdOut ==
    /\ api = "toJsonStdOut" /\ pc = "loop" /\ HasNext
    /\ idx' = idx + 1
    /\ PrintJson(_flatten(Pulled, fields))
    /\ UNCHANGED <<api, reader, fields, header, pretty_headers, showindex,
                   bulkRecs, first, fieldnames, ret>>

toJsonStdOut2 ==
    /\ api = "toJsonStdOut2" /\ pc = "loop" /\ HasNext
    /\ idx' = idx + 1
    /\ PrintJson(_flatten2(Pulled, fields))
    /\ UNCHANGED <<api, reader, fields, header, pretty_headers, showindex,
                   bulkRecs, first, fieldnames, ret>>

(* csv.DictWriter: writeheader writes the fieldnames; writerow raises      *)
(* ValueError on a key outside fieldnames and writes record.get(k, "")     *)
WriteHeader(names) == [call |-> "writeheader", cells |-> names]
WriteRow(names, record) ==
    [call |-> "writerow",
     cells |-> [j \in DOMAIN names |->
                  IF Has(record, names[j]) THEN Get(record, names[j]).s ELSE EmptyStr]]
ExtraKeys(names, record) == \E i \in DOMAIN record : record[i].k \notin Range(names)

(* mutation of toCsvFile: the header is written before every row *)
toCsvFileHeaderPerRow ==
    /\ api = "toCsvFile" /\ pc = "loop" /\ HasNext
    /\ idx' = idx + 1
    /\ LET record == _flatten(Pulled, fields)
           names == IF idx = 0 THEN Keys(record.val) ELSE fieldnames
       IN  IF ~record.ok
           THEN pc' = "raised" /\ exc' = record.exc /\ UNCHANGED <<out, fieldnames>>
           ELSE /\ fieldnames' = names
                /\ out' = out \o (IF header THEN <<WriteHeader(names)>> ELSE <<>>)
                               \o <<WriteRow(names, record.val)>>
                /\ UNCHANGED <<pc, exc>>
    /\ UNCHANGED <<api, reader, fields, header, pretty_headers, showindex,
                   bulkRecs, first, ret>>

toCsvFile ==
    /\ api = "toCsvFile" /\ pc = "loop" /\ HasNext
    /\ idx' = idx + 1
    /\ LET record == _flatten(Pulled, fields)
           names == IF idx = 0 THEN Keys(record.val) ELSE fieldnames
           headed == out \o (IF idx = 0 /\ header THEN <<WriteHeader(names)>> ELSE <<>>)
       IN  IF ~record.ok
           THEN pc' = "raised" /\ exc' = record.exc /\ UNCHANGED <<out, fieldnames>>
           ELSE IF ExtraKeys(names, record.val)
           THEN /\ pc' = "raised" /\ exc' = "ValueError"
                /\ out' = headed /\ fieldnames' = names
           ELSE /\ fieldnames' = names
                /\ out' = Append(headed, WriteRow(names, record.val))
                /\ UNCHANGED <<pc, exc>>
    /\ UNCHANGED <<api, reader, fields, header, pretty_headers, showindex,
                   bulkRecs, first, ret>>

(* the reader is exhausted: the loop ends and the method returns *)
EndOfStream ==
    /\ api \in {"toJsonStdOut", "toJsonStdOut2", "toCsvFile"}
    /\ pc = "loop" /\ ~HasNext
    /\ pc' = "done"
    /\ UNCHANGED <<api, reader, fields, header, pretty_headers, showindex, idx,
                   bulkRecs, first, fieldnames, out, exc, ret>>

Next == toJsonStdOut \/ toJsonStdOut2 \/ toCsvFile \/ EndOfStream

Spec == Init /\ [][Next]_vars

----------------------------------------------------------------------------
(* SpecTab: toStdOut, one action per call: the loop over the stream and    *)
(* the flush after it                                                      *)

PageSize == 1000

_default_fields ==
    << S("flow_type"), S("proc_exe"), S("proc_args"), S("pproc_pid"), S("proc_pid"),
       S("proc_tid"), S("op_flags"), S("ts"), S("end_ts"), S("fd"), S("ret_code"),
       S("res"), S("rcv_r_bytes"), S("snd_w_bytes"), S("cont_id") >>

_colwidths ==
    [ idx |-> 6, flow_type |-> 5, op_flags |-> 12, op_flags_bitmap |-> 5,
      ret_code |-> 4, ts |-> 26, ts_uts |-> 12, end_ts |-> 26, end_ts_uts |-> 12,
      proc_pid |-> 5, proc_tid |-> 5, proc_uid |-> 5, proc_user |-> 8,
      proc_gid |-> 5, proc_group |-> 8, proc_exe |-> 30, proc_args |-> 45,
      proc_tty |-> 5, proc_create_ts |-> 12, pproc_pid |-> 5, pproc_gid |-> 5,
      pproc_uid |-> 5, pproc_group |-> 8, pproc_tty |-> 5, pproc_user |-> 8,
      pproc_exe |-> 30, pproc_args |-> 45, pproc_create_ts |-> 8, fd |-> 5,
      open_flags |-> 5, res |-> 45, proto |-> 5, sport |-> 5, dport |-> 5,
      sip |-> 16, dip |-> 16, rcv_r_bytes |-> 8, rcv_r_ops |-> 8,
      snd_w_bytes |-> 8, snd_w_ops |-> 8, cont_id |-> 16, cont_image_id |-> 16,
      cont_image |-> 16, cont_name |-> 16, cont_type |-> 8, cont_privileged |-> 5 ]

HasWidth(key) == Len(key) = 1 /\ key[1] \in DOMAIN _colwidths

(* str(n) of a natural number *)
RECURSIVE Digits(_)
Digits(n) ==
    LET d == <<"0", "1", "2", "3", "4", "5", "6", "7", "8", "9">>
    IN  IF n < 10 THEN <<d[n + 1]>> ELSE Digits(n \div 10) \o <<d[(n % 10) + 1]>>

(* '{0: <{width}}'.format(value, width=w): spaces appended up to w symbols *)
PadRight(text, w) == text \o [i \in 1..(w - Len(text)) |-> " "]

(* mutation of FormatCell: the marker is appended when the text exceeds    *)
(* the column width, w - 2, instead of the cell width w                    *)
FormatCellMarkingAtColumnWidth(text, w) ==
    LET data == PadRight(text, w)
    IN  SubSeq(data, 1, IF Len(data) < w THEN Len(data) ELSE w)
        \o (IF Len(text) > w - 2 THEN <<".", ".">> ELSE <<>>)

(* data[:w] + (data[w:] and '..') *)
FormatCell(text, w) ==
    LET data == PadRight(text, w)
    IN  SubSeq(data, 1, IF Len(data) < w THEN Len(data) ELSE w)
        \o (IF Len(data) > w THEN <<".", ".">> ELSE <<>>)

(* lines 262-268: the idx column put first, then every cell formatted *)
WithIndex(record, i) == <<E("idx", Digits(i))>> \o record
FormatRecord(record) ==
    LET cells == [j \in DOMAIN record |->
                    [k |-> record[j].k,
                     v |-> Str(FormatCell(record[j].v.s,
                                          _colwidths[record[j].k[1]] + 2))]]
    IN  SubSeq(cells, 1, Len(cells))

(* lines 255, 261-268 for the record at index i: the row appended to bulkRecs *)
TableRow(r, i, f, withIndex) ==
    LET flat == _flatten(r, IF f.given THEN f ELSE FieldList(_default_fields))
        record == IF withIndex THEN WithIndex(flat.val, i) ELSE flat.val
    IN  IF ~flat.ok THEN flat
        ELSE IF \E j \in DOMAIN record : ~HasWidth(record[j].k) THEN Raise("KeyError")
        ELSE Ok(FormatRecord(record))

(* print(tabulate(bulkRecs, headers=headers, tablefmt='github')) or, after *)
(* the first block, print(tabulate(bulkRecs, tablefmt='github'))           *)
Tabulate(rows, isFirst, pretty) ==
    [headers |-> IF ~isFirst THEN "" ELSE IF pretty THEN "_header_map" ELSE "keys",
     rows |-> rows]

(* the state of one call: the locals idx (as the count of records pulled), *)
(* bulkRecs and first, the blocks printed, and the exception raised if any *)
TabStart == [idx |-> 0, bulkRecs |-> <<>>, first |-> TRUE, out |-> <<>>, exc |-> ""]

(* mutation of toStdOutBody: the first flag is never cleared *)
toStdOutBodyKeepingFirst(st, i) ==
    LET row == TableRow(Rec(reader[i + 1]), i, fields, showindex)
        page == Append(st.bulkRecs, row.val)
    IN  IF ~row.ok THEN [st EXCEPT !.idx = i + 1, !.exc = row.exc]
        ELSE IF i > 0 /\ i % PageSize = 0
        THEN [st EXCEPT !.idx = i + 1, !.bulkRecs = <<>>,
                        !.out = Append(st.out, Tabulate(page, st.first, pretty_headers))]
        ELSE [st EXCEPT !.idx = i + 1, !.bulkRecs = page]

(* lines 260-276: the body of `for idx, r in enumerate(self.reader)` for   *)
(* the record at index i                                                   *)
toStdOutBody(st, i) ==
    LET row == TableRow(Rec(reader[i + 1]), i, fields, showindex)
        page == Append(st.bulkRecs, row.val)
    IN  IF ~row.ok THEN [st EXCEPT !.idx = i + 1, !.exc = row.exc]
        ELSE IF i > 0 /\ i % PageSize = 0
        THEN [st EXCEPT !.idx = i + 1, !.bulkRecs = <<>>, !.first = FALSE,
                        !.out = Append(st.out, Tabulate(page, st.first, pretty_headers))]
        ELSE [st EXCEPT !.idx = i + 1, !.bulkRecs = page]

(* the loop over the records at indexes lo..hi, in order, stopped by the   *)
(* first exception; the range is halved to keep the evaluation shallow,    *)
(* and the state after the first half is bound as a value                  *)
RECURSIVE toStdOutLoop(_, _, _)
toStdOutLoop(st, lo, hi) ==
    IF lo > hi THEN st
    ELSE IF lo = hi THEN toStdOutBody(st, lo)
    ELSE LET mid == (lo + hi) \div 2
         IN  CHOOSE res \in { IF left.exc # "" THEN left
                                ELSE toStdOutLoop(left, mid + 1, hi) :
                                  left \in {toStdOutLoop(st, lo, mid)} } : TRUE

(* mutation of toStdOutFlush: the remaining page is not printed *)
toStdOutFlushOmitted(st) == st

(* lines 278-282: the remaining partial page is printed after the loop *)
toStdOutFlush(st) ==
    IF Len(st.bulkRecs) > 0
    THEN [st EXCEPT !.out = Append(st.out, Tabulate(st.bulkRecs, st.first, pretty_headers))]
    ELSE st

(* the streams rendered: every quarter page up to MaxPages pages and a     *)
(* half, and the lengths next to a whole page                              *)
TabLengths ==
    { n \in 0..(MaxPages * PageSize + PageSize \div 2) :
        n % (PageSize \div 4) = 0 \/ n % PageSize \in {1, PageSize - 1} }
TabStream(n) == [i \in 1..n |-> (i - 1) % Cardinality(RecordIds)]

TabFieldArgs(n) ==
    {FieldList(<<S("flow_type"), S("proc_pid")>>)}
    \cup (IF n <= 1 THEN {NoFields, FieldList(<<S("bogus")>>)} ELSE {})

InitTab ==
    /\ api = "toStdOut"
    /\ \E n \in TabLengths : reader = TabStream(n) /\ fields \in TabFieldArgs(n)
    /\ header = TRUE
    /\ pretty_headers \in BOOLEAN /\ showindex \in BOOLEAN
    /\ idx = 0 /\ bulkRecs = <<>> /\ first = TRUE /\ fieldnames = <<>> /\ out = <<>>
    /\ pc = "loop" /\ exc = "" /\ ret = NotReturned

(* lines 242-282: one call of toStdOut, the loop and the flush after it *)
toStdOut ==
    /\ api = "toStdOut" /\ pc = "loop"
    /\ \E st \in {toStdOutLoop(TabStart, 0, Len(reader) - 1)} :
       \E fin \in {IF st.exc = "" THEN toStdOutFlush(st) ELSE st} :
           /\ idx' = fin.idx
           /\ bulkRecs' = fin.bulkRecs
           /\ first' = fin.first
           /\ out' = fin.out
           /\ exc' = fin.exc
           /\ pc' = IF fin.exc = "" THEN "done" ELSE "raised"
    /\ UNCHANGED <<api, reader, fields, header, pretty_headers, showindex,
                   fieldnames, ret>>

NextTab == toStdOut

SpecTab == InitTab /\ [][NextTab]_vars

----------------------------------------------------------------------------
(* SpecCell: lines 262-269 of toStdOut on one flattened record, for every  *)
(* column of _colwidths and every length of the value's text up to MaxOver *)
(* symbols beyond the cell                                                 *)

(* a value's text of n symbols; the second alphabet has spaces in it *)
Alphabets == << <<"a", "b", "c", "d", "e", "f", "g">>, <<"p", " ", "q", ".", "r">> >>
CellText(a, n) == [i \in 1..n |-> Alphabets[a][((i - 1) % Len(Alphabets[a])) + 1]]

(* the keys _flatten can return: those of _colwidths but idx *)
CellKeys == DOMAIN _colwidths \ {"idx"}

(* the index values of a stream: one to five digits, the idx cell being 8 wide *)
CellIndexes == {0, 7, 999, 1000, 25000}

InitCell ==
    /\ api = "toStdOut"
    /\ reader = <<>> /\ fields = NoFields
    /\ header = TRUE /\ pretty_headers = TRUE
    /\ showindex \in BOOLEAN
    /\ idx \in (IF showindex THEN CellIndexes ELSE {0})
    /\ \E key \in CellKeys, a \in DOMAIN Alphabets :
          \E n \in 0..(_colwidths[key] + 2 + MaxOver) :
             ret = Ok(<<E(key, CellText(a, n))>>)
    /\ bulkRecs = <<>> /\ first = TRUE /\ fieldnames = <<>> /\ out = <<>>
    /\ pc = "flattened" /\ exc = ""

(* lines 262-269: the idx column, the cells formatted, the row appended *)
FormatAndAppend ==
    /\ api = "toStdOut" /\ pc = "flattened"
    /\ bulkRecs' = Append(bulkRecs,
                          FormatRecord(IF showindex THEN WithIndex(ret.val, idx)
                                       ELSE ret.val))
    /\ pc' = "appended"
    /\ UNCHANGED <<api, reader, fields, header, pretty_headers, showindex, idx,
                   first, fieldnames, out, exc, ret>>

NextCell == FormatAndAppend

SpecCell == InitCell /\ [][NextCell]_vars

----------------------------------------------------------------------------
(* Properties of _flatten and _flatten2 (SpecFlat) *)

TheRecord == Rec(reader[1])
Returned == pc # "loop"
NoDuplicates(ks) == \A i, j \in DOMAIN ks : ks[i] = ks[j] => i = j
UniqueKeys(m) == NoDuplicates(Keys(m))

(* C4: without a field list _flatten returns, for every record of each of  *)
(* the four variants whatever sub-entities it carries, a mapping whose key *)
(* sequence is the canonical key sequence; every value is a string, and    *)
(* the fields of an absent parent process or container are "".             *)
C4_CanonicalKeySequence ==
    (api = "_flatten" /\ Returned /\ ~Truthy(fields)) =>
        /\ ret.ok
        /\ Keys(ret.val) = CanonicalKeys
        /\ \A i \in DOMAIN ret.val : ~ret.val[i].v.d
        /\ \A i \in DOMAIN ret.val :
              LET k == ret.val[i].k[1]
              IN  \/ (TheRecord.pproc = None /\ k \in {"pproc_pid", "pproc_gid",
                        "pproc_uid", "pproc_group", "pproc_tty", "pproc_user",
                        "pproc_exe", "pproc_args", "pproc_create_ts"})
                  \/ (TheRecord.cont = None /\ k \in {"cont_id", "cont_name",
                        "cont_image_id", "cont_image", "cont_type", "cont_privileged"})
                  => ret.val[i].v = Str(EmptyStr)

C4_Witness ==
    /\ api = "_flatten" /\ pc = "done" /\ ~Truthy(fields)
    /\ TheRecord.objtype = FILE_EVT
    /\ TheRecord.pproc = None /\ TheRecord.cont = None /\ TheRecord.files.f1 = None
    /\ Len(ret.val) = Len(CanonicalKeys)

(* C5: in the legacy mapping proto, sip, dip, sport, dport hold the flow's *)
(* (non-empty) values exactly for NetworkFlow records and "" for the other *)
(* three variants; open_flags holds the flow's value exactly for FileFlow. *)
C5_TagDecidesPresence ==
    (api = "_flatten" /\ pc = "done") =>
        /\ \A k \in {"proto", "sip", "dip", "sport", "dport"} :
              Has(ret.val, S(k)) =>
                /\ TheRecord.objtype = NET_FLOW
                      => Get(ret.val, S(k)) = Str(TheRecord.flow[k])
                         /\ TheRecord.flow[k] # EmptyStr
                /\ TheRecord.objtype # NET_FLOW => Get(ret.val, S(k)) = Str(EmptyStr)
        /\ Has(ret.val, S("open_flags")) =>
                /\ TheRecord.objtype = FILE_FLOW
                      => Get(ret.val, S("open_flags")) = Str(TheRecord.flow.openFlags)
                         /\ TheRecord.flow.openFlags # EmptyStr
                /\ TheRecord.objtype # FILE_FLOW
                      => Get(ret.val, S("open_flags")) = Str(EmptyStr)

C5_Witness ==
    /\ api = "_flatten" /\ pc = "done" /\ ~Truthy(fields)
    /\ TheRecord.objtype = FILE_FLOW
    /\ Get(ret.val, S("sip")) = Str(EmptyStr)
    /\ Get(ret.val, S("open_flags")) = Str(S("flow.openFlags"))

(* p names a path of mapping m: every key is in the mapping reached so far *)
RECURSIVE ValidPath(_, _)
ValidPath(m, p) ==
    /\ p # <<>>
    /\ Has(m, Head(p))
    /\ Len(p) > 1 => /\ Get(m, Head(p)).d
                      /\ ValidPath(Get(m, Head(p)).m, Tail(p))

(* the paths of m that end at a string or at an empty mapping *)
RECURSIVE LeafPaths(_)
LeafPaths(m) ==
    UNION { IF m[i].v.d /\ m[i].v.m # <<>>
            THEN { <<m[i].k>> \o p : p \in LeafPaths(m[i].v.m) }
            ELSE { <<m[i].k>> } : i \in DOMAIN m }

(* no mapping of m, at any depth, holds a key twice *)
RECURSIVE UniqueKeysDeep(_)
UniqueKeysDeep(m) ==
    /\ UniqueKeys(m)
    /\ \A i \in DOMAIN m : m[i].v.d => UniqueKeysDeep(m[i].v.m)

FullNested == VersionedFlatMap(TheRecord)

(* the record with its optional sub-entities present: the paths its variant allows *)
WithSubEntities(r) == [r EXCEPT !.pproc = Process("pproc"), !.cont = Container]
SchemaValid(r, k) == ValidPath(VersionedFlatMap(WithSubEntities(r)), Split(k))

(* C6 (as claimed): a versioned projection whose keys all name a path of   *)
(* the record's variant, a leaf being missing at most because the parent   *)
(* process or the container is absent, succeeds; only a key naming no      *)
(* valid path raises.                                                      *)
C6_AbsentSubEntityLeafSucceeds ==
    (/\ api = "_flatten2" /\ Returned /\ Truthy(fields)
     /\ \A k \in Range(fields.keys) : SchemaValid(TheRecord, k))
    => ret.ok

(* C7: for a list of keys that are paths of the full nested mapping, the   *)
(* projection succeeds, its first key is v, every requested path holds the *)
(* value the full mapping holds there (so a later key neither overwrites   *)
(* nor drops an earlier key's leaf), each prefix is one sub-mapping, and   *)
(* every leaf of the result lies on a requested path.                      *)
C7_ProjectionMirrorsRequestedPaths ==
    (/\ api = "_flatten2" /\ Returned /\ Truthy(fields)
     /\ \A k \in Range(fields.keys) : ValidPath(FullNested, Split(k)))
    => /\ ret.ok
       /\ ret.val[1] = [k |-> S("v"), v |-> Get(FullNested, S("v"))]
       /\ UniqueKeysDeep(ret.val)
       /\ \A k \in Range(fields.keys) :
             /\ ValidPath(ret.val, Split(k))
             /\ GetPath(ret.val, Split(k)) = GetPath(FullNested, Split(k))
       /\ \A p \in LeafPaths(ret.val) :
             \/ p = <<S("v")>>
             \/ \E k \in Range(fields.keys) : IsPrefix(Split(k), p)

C7_Witness ==
    /\ api = "_flatten2" /\ pc = "done"
    /\ fields.keys = << <<"proc", ".", "pid">>, <<"proc", ".", "uid">> >>
    /\ Keys(ret.val) = <<S("v"), S("proc")>>
    /\ Keys(Get(ret.val, S("proc")).m) = <<S("pid"), S("uid")>>

(* the keys of ks in order of first occurrence *)
FirstOccurrences(ks) ==
    LET firsts == { i \in DOMAIN ks : \A j \in 1..(i - 1) : ks[j] # ks[i] }
        nth(n) == CHOOSE i \in firsts : Cardinality({ j \in firsts : j < i }) = n - 1
    IN  [n \in 1..Cardinality(firsts) |-> ks[nth(n)]]

Unprojected == _flatten(TheRecord, NoFields).val
AllCanonical(ks) == \A k \in Range(ks) : k \in CanonicalKeySet
SameValues(m, full) == \A i \in DOMAIN m : m[i].v = Get(full, m[i].k)

(* C8 (as claimed): for any list of canonical keys the result's key        *)
(* sequence is the list itself, with the unprojected values; the list of   *)
(* all canonical keys gives the unprojected mapping; a key outside the     *)
(* canonical set fails.                                                    *)
C8_KeysExactlyAsRequested ==
    (api = "_flatten" /\ Returned /\ fields.given) =>
        IF AllCanonical(fields.keys)
        THEN /\ ret.ok
             /\ Keys(ret.val) = fields.keys
             /\ SameValues(ret.val, Unprojected)
             /\ fields.keys = CanonicalKeys => ret.val = Unprojected
        ELSE ~ret.ok

(* C8 (amended): for a non-empty list of canonical keys the result's key   *)
(* sequence is the requested keys in order of first occurrence (a repeated *)
(* key appears once), with the unprojected values; an empty list gives the *)
(* unprojected mapping, as does the list of all canonical keys; a key      *)
(* outside the canonical set fails with KeyError.                          *)
C8_LegacyProjection ==
    (api = "_flatten" /\ Returned /\ fields.given) =>
        IF AllCanonical(fields.keys)
        THEN /\ ret.ok
             /\ fields.keys # <<>> => Keys(ret.val) = FirstOccurrences(fields.keys)
             /\ fields.keys = <<>> => ret.val = Unprojected
             /\ SameValues(ret.val, Unprojected)
             /\ fields.keys = CanonicalKeys => ret.val = Unprojected
        ELSE ~ret.ok /\ ret.exc = "KeyError"

C8_Witness ==
    /\ api = "_flatten" /\ pc = "done"
    /\ fields.keys = <<S("sip"), S("flow_type")>>
    /\ Keys(ret.val) = <<S("sip"), S("flow_type")>>
    /\ TheRecord.objtype = NET_FLOW
    /\ Get(ret.val, S("sip")) = Str(S("flow.sip"))

----------------------------------------------------------------------------
(* Properties of the streamed exports (Spec) *)

(* what flattening the i-th record of the stream gives under the running export *)
FlattenOf(i) ==
    IF api = "toJsonStdOut2" THEN _flatten2(Rec(reader[i]), fields)
    ELSE _flatten(Rec(reader[i]), fields)

Failing == { i \in DOMAIN reader : ~FlattenOf(i).ok }
FirstFailing == CHOOSE i \in Failing : \A j \in Failing : i <= j
JsonExport == api \in {"toJsonStdOut", "toJsonStdOut2"}
LinesOfFirst(n) == [i \in 1..n |-> json_dumps(FlattenOf(i).val)]

(* C9 (as claimed): when the flattening first fails at position k (from    *)
(* zero) the export has raised with exactly the k earlier records emitted, *)
(* one line each in source order, and no record at or after position k     *)
(* emitted or pulled from the source.                                      *)
C9_NothingPulledFromFailure ==
    (JsonExport /\ pc = "raised") =>
        /\ Failing # {}
        /\ out = LinesOfFirst(FirstFailing - 1)
        /\ idx <= FirstFailing - 1

(* C9 (amended): when the flattening first fails at position k the export  *)
(* raises that error at once: exactly the k earlier records are emitted,   *)
(* one line each in source order, no record at or after k is emitted, and  *)
(* no record after k is pulled (record k itself has been pulled, being the *)
(* one whose flattening failed); an export that returns has had no failure *)
(* and has emitted every record.                                           *)
C9_ErrorAbortsExport ==
    JsonExport =>
        /\ pc = "raised" =>
              /\ Failing # {}
              /\ out = LinesOfFirst(FirstFailing - 1)
              /\ idx = FirstFailing
              /\ exc = FlattenOf(FirstFailing).exc
        /\ pc = "loop" => out = LinesOfFirst(idx) /\ \A i \in Failing : i > idx
        /\ pc = "done" => Failing = {} /\ out = LinesOfFirst(Len(reader))

C9_Witness ==
    /\ api = "toJsonStdOut2" /\ pc = "raised" /\ exc = "KeyError"
    /\ Len(out) = 2 /\ idx = 3
    /\ Rec(reader[3]).objtype = PROC_EVT

(* C10: toCsvFile writes the header at most once and before any data row;  *)
(* an export that returns has written it exactly if the header flag is set *)
(* and the stream has a record; the header is the first record's key       *)
(* sequence; there is one data row per record pulled, in source order, and *)
(* each record has exactly the header's keys, its row giving their values. *)
C10_CsvHeaderOnce ==
    api = "toCsvFile" =>
        LET headers == { i \in DOMAIN out : out[i].call = "writeheader" }
            rows == SelectSeq(out, LAMBDA w : w.call = "writerow")
            names == Keys(_flatten(Rec(reader[1]), fields).val)
        IN  /\ headers \subseteq {1}
            /\ headers # {} => header /\ out[1].cells = names
            /\ (header /\ Len(rows) > 0) => headers # {}
            /\ pc = "done" => (headers # {} <=> (header /\ Len(reader) >= 1))
            /\ pc = "done" => Len(rows) = Len(reader)
            /\ pc = "loop" => Len(rows) = idx
            /\ \A i \in DOMAIN rows :
                  /\ Keys(_flatten(Rec(reader[i]), fields).val) = names
                  /\ rows[i].cells =
                        [j \in DOMAIN names |->
                           Get(_flatten(Rec(reader[i]), fields).val, names[j]).s]

C10_Witness ==
    /\ api = "toCsvFile" /\ pc = "done" /\ header
    /\ Len(reader) = 2 /\ reader[1] # reader[2]
    /\ Len(out) = 3 /\ out[1].call = "writeheader"
    /\ out[2].call = "writerow" /\ out[3].call = "writerow"

----------------------------------------------------------------------------
(* Properties of toStdOut (SpecTab) *)

BlockSizes == [j \in DOMAIN out |-> Len(out[j].rows)]
HasHeaders(j) == out[j].headers # ""

RECURSIVE Flushed(_)
Flushed(j) == IF j = 0 THEN <<>> ELSE Flushed(j - 1) \o out[j].rows

(* the row of the record at index i (from zero) *)
RowOf(i) == TableRow(Rec(reader[i + 1]), i, fields, showindex).val

(* C1 (as claimed): a stream of 2500 records is flushed as 3 blocks of     *)
(* 1000, 1000 and 500 records, headers on block 1 only.                    *)
C1_Blocks1000_1000_500 ==
    (api = "toStdOut" /\ pc = "done" /\ Len(reader) = 2500) =>
        /\ BlockSizes = <<1000, 1000, 500>>
        /\ HasHeaders(1) /\ ~HasHeaders(2) /\ ~HasHeaders(3)

(* C2: when toStdOut returns, the rows of the flushed blocks, block after  *)
(* block, are the rows of the records of the stream, each once and in      *)
(* source order (with showindex the idx cell of row i is i, from zero), so *)
(* nothing is left in the page buffer that was not flushed.                *)
C2_EveryRecordOnceInOrder ==
    (api = "toStdOut" /\ pc = "done") =>
        /\ idx = Len(reader)
        /\ Flushed(Len(out)) = [i \in 1..Len(reader) |-> RowOf(i - 1)]
        /\ bulkRecs # <<>> => out[Len(out)].rows = bulkRecs
        /\ showindex =>
              \A i \in 1..Len(reader) :
                 Flushed(Len(out))[i][1] =
                    [k |-> S("idx"), v |-> Str(PadRight(Digits(i - 1), 8))]

C2_Witness ==
    /\ api = "toStdOut" /\ pc = "done" /\ showindex
    /\ Len(out) >= 3 /\ bulkRecs # <<>>

(* C3: the first block flushed, by the loop or by the flush after it, is   *)
(* the only one rendered with headers; a stream with a record gives at     *)
(* least one block when toStdOut returns, the empty stream gives none.     *)
C3_HeadersOnFirstBlockOnly ==
    api = "toStdOut" =>
        /\ \A j \in DOMAIN out : HasHeaders(j) <=> j = 1
        /\ out # <<>> => out[1].headers = IF pretty_headers THEN "_header_map" ELSE "keys"
        /\ (pc = "done" /\ Len(reader) >= 1) => Len(out) >= 1
        /\ Len(reader) = 0 => out = <<>>
        /\ \A j \in DOMAIN out : out[j].rows # <<>>

C3_Witness ==
    /\ api = "toStdOut" /\ pc = "done"
    /\ Len(out) >= 2 /\ HasHeaders(1) /\ ~HasHeaders(Len(out))

----------------------------------------------------------------------------
(* Properties of the cell formatting (SpecCell) *)

Spaces(n) == [i \in 1..n |-> " "]
Appended == api = "toStdOut" /\ pc = "appended"
(* the record whose cells were formatted, and its row *)
Unformatted == IF showindex THEN WithIndex(ret.val, idx) ELSE ret.val
Row == bulkRecs[Len(bulkRecs)]
CellWidth(j) == _colwidths[Unformatted[j].k[1]] + 2
Marked(cell, w) == Len(cell) = w + 2 /\ SubSeq(cell, w + 1, w + 2) = <<".", ".">>

(* C11: every cell of a row is the value's text padded with spaces on the  *)
(* right to width+2 symbols and cut to its first width+2 symbols, with the *)
(* marker '..' appended exactly if the text is longer than width+2; so a   *)
(* cell is width+2 symbols long unmarked or width+4 marked, and a text of  *)
(* width+1 or width+2 symbols is unmarked.                                 *)
C11_CellPaddedCutAndMarked ==
    Appended =>
        /\ Keys(Row) = Keys(Unformatted)
        /\ \A j \in DOMAIN Row :
              LET text == Unformatted[j].v.s
                  cell == Row[j].v.s
                  w == CellWidth(j)
              IN  /\ Len(text) <= w =>
                        cell = text \o Spaces(w - Len(text)) /\ Len(cell) = w
                  /\ Len(text) > w =>
                        cell = SubSeq(text, 1, w) \o <<".", ".">> /\ Len(cell) = w + 2
                  /\ Marked(cell, w) <=> Len(text) > w
                  /\ Len(text) \in {w - 1, w} => Len(cell) = w /\ ~Marked(cell, w)

C11_Witness ==
    /\ Appended /\ showindex
    /\ Len(Row) = 2
    /\ Len(Unformatted[2].v.s) = CellWidth(2) + 1
    /\ Marked(Row[2].v.s, CellWidth(2))
    /\ ~Marked(Row[1].v.s, CellWidth(1))

====
